---- MODULE Spec2Model ----
(***************************************************************************)
(* ai-commit: src/ai_commit/__main__.py                                    *)
(*                                                                         *)
(* The program is one synchronous pipeline: read the staged diff, ask a    *)
(* remote model for a commit message, run the confirmation loop, commit.   *)
(* A text is a sequence of one-character strings, so that strip(),         *)
(* lower(), slicing and truthiness are computed as Python computes them.   *)
(* Each action is one step of main() from one blocking call (subprocess,   *)
(* HTTP request, console prompt) to the next.                              *)
(***************************************************************************)
EXTENDS Integers, Sequences, FiniteSets, TLC

VARIABLES
    pc,            \* position of main(): the blocking call it is waiting in
    caller,        \* call site prompt_manual_message() returns to
    diff,          \* main's local diff (result of get_staged_diff)
    msg,           \* the local msg of main / prompt_commit_message
    model,         \* args.model
    hf_token,      \* os.getenv("HF_TOKEN")
    exitStatus,    \* <<>> while running, <<status>> once the process ended
    notice,        \* the last notice printed on the console
    shownMsg,      \* the message last shown by show_suggested_message
    lastInput,     \* the raw text the user typed at the last prompt
    gitOutput,     \* what git diff --staged printed, None when it failed
    diffOutcome,   \* how the git diff subprocess ended
    genOutcome,    \* how the last chat-completion request ended
    genCalls,      \* arguments of the first and of the latest
                   \* generate_commit_message call
    commitCalls,   \* messages commit_with_message was called with
    commitOutcome, \* how the git commit subprocess ended
    interruptedAt, \* position at which KeyboardInterrupt was raised
    initial_msg,   \* parameter initial_msg of prompt_commit_message
    established    \* the message most recently generated or typed in

vars == <<pc, caller, diff, msg, model, hf_token, exitStatus, notice,
          shownMsg, lastInput, gitOutput, diffOutcome, genOutcome, genCalls,
          commitCalls, commitOutcome, interruptedAt, initial_msg,
          established>>

(***************************************************************************)
(* Bounds of the model                                                     *)
(***************************************************************************)
MaxMsgLen == 2      \* longest raw text of a model reply or a manual entry
MaxPad == 2         \* longest whitespace run around a long diff, and how far
                    \* the lengths of the long diffs lie from MAX_DIFF_CHARS

(***************************************************************************)
(* Program constants                                                       *)
(***************************************************************************)
DEFAULT_MODEL == "meta-llama/Llama-3.2-3B-Instruct"
MAX_DIFF_CHARS == 5000
EXIT_SUCCESS == 0    \* sys.exit(0), and main returning
EXIT_FAILURE == 1    \* sys.exit(1)

\* Python's None. A text is a sequence of one-character strings, so this
\* one-element sequence is no text.
None == <<"None">>

\* "\n... [truncated]"
TruncationMarker ==
    <<"\n", ".", ".", ".", " ", "[", "t", "r", "u", "n", "c", "a", "t",
      "e", "d", "]">>

(***************************************************************************)
(* str helpers                                                             *)
(***************************************************************************)
Whitespace == {" ", "\n", "\t"}

SeqsUpTo(S, n) == UNION {[1..k -> S] : k \in 0..n}

Rep(c, n) == [i \in 1..n |-> c]

RECURSIVE LStrip(_)
LStrip(s) ==
    IF s = <<>> THEN s
    ELSE IF Head(s) \in Whitespace THEN LStrip(Tail(s)) ELSE s

RECURSIVE RStrip(_)
RStrip(s) ==
    IF s = <<>> THEN s
    ELSE IF s[Len(s)] \in Whitespace THEN RStrip(SubSeq(s, 1, Len(s) - 1))
         ELSE s

\* str.strip()
Strip(s) == RStrip(LStrip(s))

LowerChar(c) ==
    CASE c = "Y" -> "y"
      [] c = "E" -> "e"
      [] c = "S" -> "s"
      [] c = "N" -> "n"
      [] c = "O" -> "o"
      [] c = "R" -> "r"
      [] OTHER -> c

\* str.lower()
Lower(s) == [i \in 1..Len(s) |-> LowerChar(s[i])]

\* (variant: only None is false, as "is not None" would test)
TruthyNotNone(x) == x # None

\* truth value of an "str | None": None and "" are false
Truthy(x) == x # None /\ x # <<>>

\* s[:n]
Prefix(s, n) == SubSeq(s, 1, IF Len(s) < n THEN Len(s) ELSE n)

(***************************************************************************)
(* What the environment can answer                                         *)
(***************************************************************************)
MsgChars == {"a", " "}

\* outputs of git diff --staged: nothing, whitespace only, and a change with
\* and without surrounding whitespace (LongDiffTexts has the longer ones)
DiffTexts ==
    { <<>>, <<"\n">>, <<"+">>, <<"\n", "+", "\n">> }

\* a diff body of n characters: it starts and ends with a change marker and
\* has line ends inside
Body(n) ==
    [i \in 1..n |-> IF i = n THEN "-" ELSE IF i % 3 = 0 THEN "\n" ELSE "+"]

\* outputs of git diff --staged around the truncation threshold, with and
\* without surrounding line ends
LongDiffTexts ==
    { Rep("\n", l) \o Body(n) \o Rep("\n", t) :
        l \in 0..MaxPad, t \in 0..MaxPad,
        n \in {0, 1} \cup ((MAX_DIFF_CHARS - MaxPad)..(MAX_DIFF_CHARS + MaxPad)) }

\* console.input() results at the manual-entry prompt
RawTexts == SeqsUpTo(MsgChars, MaxMsgLen)

\* console.input() results at the "Use this message?" prompt
RawChoices ==
    { <<>>, <<" ">>,
      <<"y">>, <<"Y">>, <<"y", "e", "s">>, <<" ", "Y", "E", "S", "\n">>,
      <<"n">>, <<"N", "o">>,
      <<"e">>, <<"E", "d", "i", "t">>,
      <<"r">>, <<"r", "e", "g", "e", "n">>,
      <<"R", "e", "g", "e", "n", "e", "r", "a", "t", "e">>,
      <<"x">>, <<"y", "e">>, <<"n", " ", "o">> }

\* subprocess.check_output(["git", "diff", "--staged"], ...)
DiffOutputs ==
    [kind : {"output"}, text : DiffTexts]
      \cup [kind : {"CalledProcessError", "FileNotFoundError"},
            text : {<<>>}]

LongDiffOutputs == [kind : {"output"}, text : LongDiffTexts]

\* client.chat.completions.create(...) and the access to its content
GenResponses ==
    [kind : {"content"}, text : SeqsUpTo(MsgChars, MaxMsgLen)]
      \cup [kind : {"HTTPError", "RequestException", "Exception"},
            text : {<<>>}]

\* subprocess.run(["git", "commit", "-F", "-"], ..., check=True)
CommitOutcomes == {"ok", "CalledProcessError"}

(***************************************************************************)
(* The functions of the program                                            *)
(***************************************************************************)
\* (variant: a diff of exactly MAX_DIFF_CHARS characters is truncated too)
GetStagedDiffOffByOne(out) ==
    IF out.kind = "output"
    THEN LET d == Strip(out.text)
         IN  IF ~Truthy(d) THEN None
             ELSE IF Len(d) >= MAX_DIFF_CHARS
                  THEN Prefix(d, MAX_DIFF_CHARS) \o TruncationMarker
                  ELSE d
    ELSE None

\* get_staged_diff
GetStagedDiff(out) ==
    IF out.kind = "output"
    THEN LET d == Strip(out.text)
         IN  IF ~Truthy(d) THEN None
             ELSE IF Len(d) > MAX_DIFF_CHARS
                  THEN Prefix(d, MAX_DIFF_CHARS) \o TruncationMarker
                  ELSE d
    ELSE None

\* generate_commit_message: the reply stripped, None on any exception
GenerateCommitMessage(resp) ==
    IF resp.kind = "content" THEN Strip(resp.text) ELSE None

\* the arguments of a generate_commit_message call
GenArgs(d, m, t) == [diff |-> d, model |-> m, hf_token |-> t]

\* (variant: empty input is no accept)
AcceptChoicesNoDefault == { <<"y">>, <<"y", "e", "s">> }

\* (variant: the choice is looked up in the text "yes", so that every part
\* of it accepts)
AcceptChoicesSubstring ==
    { <<>>, <<"y">>, <<"e">>, <<"s">>, <<"y", "e">>, <<"e", "s">>,
      <<"y", "e", "s">> }

\* (variant: only "n" rejects)
RejectChoicesOnlyN == { <<"n">> }

\* the choice lists of prompt_commit_message
AcceptChoices == { <<"y">>, <<"y", "e", "s">>, <<>> }
RejectChoices == { <<"n">>, <<"n", "o">> }
EditChoices == { <<"e">>, <<"e", "d", "i", "t">> }
RegenChoices == { <<"r">>, <<"r", "e", "g", "e", "n">>,
                  <<"r", "e", "g", "e", "n", "e", "r", "a", "t", "e">> }

\* (variant: the loop returns its parameter instead of the local)
ReturnInitialMsg(m, initial) == initial

\* "return msg" of prompt_commit_message
ReturnOnAccept(m, initial) == m

\* (variant: main goes on without a diff)
AfterStagedDiffNoCheck(d) == "generate"

\* where main goes when get_staged_diff has returned
AfterStagedDiff(d) == IF ~Truthy(d) THEN "exit" ELSE "generate"

\* (variant: the suggestion is reviewed whatever the result)
AfterInitialGenerationNoCheck(m) == "review"

\* where main goes after the first generate_commit_message call
AfterInitialGeneration(m) == IF Truthy(m) THEN "review" ELSE "manual"

\* (variant: every call site goes on to commit)
ManualReturnAlwaysCommit(site) == "commit"

\* where prompt_manual_message returns to with a non-empty message: main
\* goes on to commit_with_message, prompt_commit_message to its loop head
ManualReturn(site) == IF site = "main" THEN "commit" ELSE "review"

\* (variant: the loop of prompt_manual_message prompts again when it was
\* called from prompt_commit_message)
ManualOnEmptyRepromptInLoop(site) ==
    IF site = "main" THEN "exit" ELSE "reprompt"

\* (variant: the loop of prompt_manual_message prompts again when it was
\* called from main)
ManualOnEmptyRepromptInMain(site) ==
    IF site = "main" THEN "reprompt" ELSE "exit"

\* prompt_manual_message on empty input: sys.exit(1) ends its loop
ManualOnEmpty(site) == "exit"

\* (variant: the regeneration asks the default model)
RegenArgsDefaultModel(d, m, t) == GenArgs(d, DEFAULT_MODEL, t)

\* the arguments prompt_commit_message regenerates with
RegenArgs(d, m, t) == GenArgs(d, m, t)

\* (variant: a failed commit goes back to the review prompt)
AfterCommitRetry(outcome) == IF outcome = "ok" THEN "exit" ELSE "review"

\* where main goes when commit_with_message has returned: to its end
AfterCommit(outcome) == "exit"

\* status main ends with when commit_with_message has returned
StatusAfterCommit(outcome) == EXIT_SUCCESS

\* (variant: the handler exits with the failure status)
InterruptStatusFailure == EXIT_FAILURE

\* status of the KeyboardInterrupt handler of main
InterruptStatus == EXIT_SUCCESS

(***************************************************************************)
(* Initial state: main has parsed its arguments and waits for git diff     *)
(***************************************************************************)
Init ==
    /\ pc = "get_staged_diff"
    /\ caller = "none"
    /\ diff = None
    /\ msg = None
    /\ model \in {DEFAULT_MODEL, "other/model"}
    /\ hf_token \in {None, <<"k">>}
    /\ exitStatus = <<>>
    /\ notice = "none"
    /\ shownMsg = None
    /\ lastInput = None
    /\ gitOutput = None
    /\ diffOutcome = "none"
    /\ genOutcome = "none"
    /\ genCalls = <<>>
    /\ commitCalls = <<>>
    /\ commitOutcome = "none"
    /\ interruptedAt = "none"
    /\ initial_msg = None
    /\ established = None

\* sys.exit(status), or main returning
Exit(status) ==
    /\ pc' = "exited"
    /\ exitStatus' = <<status>>

(***************************************************************************)
(* main: get_staged_diff returns; without a diff the process exits 1,      *)
(* otherwise the diff is shown and the first generation request is sent    *)
(***************************************************************************)
StagedDiffStepOn(outputs) ==
    /\ pc = "get_staged_diff"
    /\ \E out \in outputs :
         LET d == GetStagedDiff(out)
         IN  /\ diffOutcome' = out.kind
             /\ gitOutput' = IF out.kind = "output" THEN out.text ELSE None
             /\ diff' = d
             /\ IF AfterStagedDiff(d) = "exit"
                THEN /\ notice' = "no_staged_changes"
                     /\ Exit(EXIT_FAILURE)
                     /\ UNCHANGED genCalls
                ELSE /\ notice' = "staged_diff"
                     /\ genCalls' = <<GenArgs(d, model, hf_token)>>
                     /\ pc' = "generate"
                     /\ UNCHANGED exitStatus
    /\ UNCHANGED <<caller, msg, model, hf_token, shownMsg, lastInput,
                   genOutcome, commitCalls, commitOutcome, interruptedAt,
                   initial_msg, established>>

StagedDiffStep == StagedDiffStepOn(DiffOutputs)

(***************************************************************************)
(* main: the first generate_commit_message call returns                    *)
(***************************************************************************)
GenerateStep ==
    /\ pc = "generate"
    /\ \E resp \in GenResponses :
         LET m == GenerateCommitMessage(resp)
         IN  /\ genOutcome' = resp.kind
             /\ msg' = m
             /\ established' = IF resp.kind = "content" /\ Strip(resp.text) # <<>>
                               THEN Strip(resp.text) ELSE established
             /\ pc' = AfterInitialGeneration(m)
             /\ IF pc' = "review"
                THEN /\ shownMsg' = m
                     /\ notice' = "suggested_message"
                     /\ initial_msg' = m
                     /\ UNCHANGED caller
                ELSE /\ notice' = "generation_failed"
                     /\ caller' = "main"
                     /\ UNCHANGED <<shownMsg, initial_msg>>
    /\ UNCHANGED <<diff, model, hf_token, exitStatus, lastInput, gitOutput,
                   diffOutcome,
                   genCalls, commitCalls, commitOutcome, interruptedAt>>

(***************************************************************************)
(* prompt_commit_message: one answer at the "Use this message?" prompt.    *)
(* Accept returns msg to main, which calls commit_with_message; reject     *)
(* exits 0; edit opens the manual prompt; regenerate sends a new request;  *)
(* anything else prints the invalid-choice notice and prompts again.       *)
(***************************************************************************)
ReviewStep ==
    /\ pc = "review"
    /\ \E raw \in RawChoices :
         LET choice == Lower(Strip(raw))
         IN  /\ lastInput' = raw
             /\ CASE choice \in AcceptChoices ->
                       /\ commitCalls' =
                            Append(commitCalls, ReturnOnAccept(msg, initial_msg))
                       /\ msg' = ReturnOnAccept(msg, initial_msg)
                       /\ pc' = "commit"
                       /\ UNCHANGED <<caller, exitStatus, notice, genCalls>>
                  [] choice \in RejectChoices ->
                       /\ notice' = "cancelled_by_user"
                       /\ Exit(EXIT_SUCCESS)
                       /\ UNCHANGED <<caller, msg, genCalls, commitCalls>>
                  [] choice \in EditChoices ->
                       /\ pc' = "manual"
                       /\ caller' = "edit"
                       /\ UNCHANGED <<msg, exitStatus, notice, genCalls,
                                      commitCalls>>
                  [] choice \in RegenChoices ->
                       /\ pc' = "regenerate"
                       /\ genCalls' =
                            <<genCalls[1], RegenArgs(diff, model, hf_token)>>
                       /\ UNCHANGED <<caller, msg, exitStatus, notice,
                                      commitCalls>>
                  [] OTHER ->
                       /\ notice' = "invalid_choice"
                       /\ UNCHANGED <<pc, caller, msg, exitStatus, genCalls,
                                      commitCalls>>
    /\ UNCHANGED <<diff, model, hf_token, shownMsg, gitOutput, diffOutcome,
                   genOutcome,
                   commitOutcome, interruptedAt, initial_msg, established>>

(***************************************************************************)
(* prompt_commit_message: the regeneration request returns. A non-empty    *)
(* message is shown and the loop prompts again; otherwise the manual       *)
(* prompt opens.                                                           *)
(***************************************************************************)
RegenerateStep ==
    /\ pc = "regenerate"
    /\ \E resp \in GenResponses :
         LET m == GenerateCommitMessage(resp)
         IN  /\ genOutcome' = resp.kind
             /\ msg' = m
             /\ established' = IF resp.kind = "content" /\ Strip(resp.text) # <<>>
                               THEN Strip(resp.text) ELSE established
             /\ IF Truthy(m)
                THEN /\ shownMsg' = m
                     /\ notice' = "suggested_message"
                     /\ pc' = "review"
                     /\ UNCHANGED caller
                ELSE /\ pc' = "manual"
                     /\ caller' = "regenerate"
                     /\ UNCHANGED <<shownMsg, notice>>
    /\ UNCHANGED <<diff, model, hf_token, exitStatus, lastInput, gitOutput,
                   diffOutcome,
                   genCalls, commitCalls, commitOutcome, interruptedAt,
                   initial_msg>>

(***************************************************************************)
(* prompt_manual_message: one answer at the manual prompt. A non-empty     *)
(* message is returned to the call site: main calls commit_with_message    *)
(* with it, prompt_commit_message stores it in msg and prompts again. An   *)
(* empty one prints "Commit message cannot be empty. Exiting." and exits 1.*)
(***************************************************************************)
ManualStep ==
    /\ pc = "manual"
    /\ \E raw \in RawTexts :
         LET m == Strip(raw)
         IN  /\ lastInput' = raw
             /\ IF Truthy(m)
                THEN /\ msg' = m
                     /\ established' = m
                     /\ pc' = ManualReturn(caller)
                     /\ commitCalls' = IF pc' = "commit"
                                       THEN Append(commitCalls, m)
                                       ELSE commitCalls
                     /\ UNCHANGED <<exitStatus, notice>>
                ELSE /\ notice' = "empty_message"
                     /\ IF ManualOnEmpty(caller) = "exit"
                        THEN Exit(EXIT_FAILURE)
                        ELSE UNCHANGED <<pc, exitStatus>>
                     /\ UNCHANGED <<msg, established, commitCalls>>
    /\ UNCHANGED <<caller, diff, model, hf_token, shownMsg, gitOutput,
                   diffOutcome, genOutcome, genCalls, commitOutcome,
                   interruptedAt, initial_msg>>

(***************************************************************************)
(* commit_with_message: git commit ends. Success prints the confirmation,  *)
(* CalledProcessError is caught and printed; either way the function       *)
(* returns and main ends.                                                  *)
(***************************************************************************)
CommitStep ==
    /\ pc = "commit"
    /\ \E outcome \in CommitOutcomes :
         /\ commitOutcome' = outcome
         /\ notice' = IF outcome = "ok" THEN "committed"
                      ELSE "git_commit_error"
         /\ IF AfterCommit(outcome) = "exit"
            THEN Exit(StatusAfterCommit(outcome))
            ELSE pc' = AfterCommit(outcome) /\ UNCHANGED exitStatus
    /\ UNCHANGED <<caller, diff, msg, model, hf_token, shownMsg, lastInput,
                   gitOutput, diffOutcome, genOutcome, genCalls, commitCalls,
                   interruptedAt, initial_msg, established>>

(***************************************************************************)
(* main: KeyboardInterrupt raised in any blocking call is caught by the    *)
(* handler of main, which prints the cancellation notice and exits         *)
(***************************************************************************)
Interrupt ==
    /\ pc \in {"get_staged_diff", "generate", "review", "manual",
               "regenerate", "commit"}
    /\ interruptedAt' = pc
    /\ notice' = "operation_cancelled"
    /\ Exit(InterruptStatus)
    /\ UNCHANGED <<caller, diff, msg, model, hf_token, shownMsg, lastInput,
                   gitOutput, diffOutcome, genOutcome, genCalls, commitCalls,
                   commitOutcome, initial_msg, established>>

Next ==
    \/ StagedDiffStep
    \/ GenerateStep
    \/ ReviewStep
    \/ RegenerateStep
    \/ ManualStep
    \/ CommitStep
    \/ Interrupt

Spec == Init /\ [][Next]_vars

\* the specification with the scheduling of a run whose blocking calls return
FairSpec == Spec /\ WF_vars(Next)

(***************************************************************************)
(* get_staged_diff alone, on outputs around the truncation threshold: the  *)
(* first step of main, and nothing after it                                *)
(***************************************************************************)
LongDiffStep == StagedDiffStepOn(LongDiffOutputs)

TruncSpec == Init /\ [][LongDiffStep]_vars

(***************************************************************************)
(* Steps the properties speak about                                        *)
(***************************************************************************)
\* the exceptions generate_commit_message catches
GenFailures == {"HTTPError", "RequestException", "Exception"}

\* this step is an answer typed at the manual prompt
ManualAnswered == pc = "manual" /\ interruptedAt' = "none" /\ lastInput' # None

\* this step is an answer typed at the "Use this message?" prompt
ReviewAnswered == pc = "review" /\ interruptedAt' = "none" /\ lastInput' # None

\* this step is the return of a generation request
GenReturned ==
    pc \in {"generate", "regenerate"} /\ interruptedAt' = "none"

(***************************************************************************)
(* C1: commit_with_message is only ever called with a non-empty message:   *)
(* every message passed to it is neither None nor the empty text.          *)
(***************************************************************************)
C1_CommitOnlyNonEmpty ==
    \A i \in DOMAIN commitCalls :
        commitCalls[i] # None /\ Len(commitCalls[i]) > 0

\* a commit call made after a regeneration gave nothing and the user typed
\* the message at the manual prompt
C1_Witness ==
    /\ pc = "commit"
    /\ Len(commitCalls) = 1
    /\ caller = "regenerate"
    /\ shownMsg # commitCalls[1]

(***************************************************************************)
(* C2: when git commit exits non-zero, the process ends with status 1.     *)
(* The code catches CalledProcessError in commit_with_message, prints the  *)
(* error and lets main return, so the status is 0.                         *)
(***************************************************************************)
C2_CommitFailureExitsOne ==
    (pc = "exited" /\ commitOutcome = "CalledProcessError")
        => exitStatus = <<EXIT_FAILURE>>

(***************************************************************************)
(* C3 as stated: a non-empty message typed at the manual prompt opened     *)
(* from the review loop is committed next, without another review prompt.  *)
(***************************************************************************)
C3_ManualFromReviewCommits ==
    [][(ManualAnswered /\ caller \in {"edit", "regenerate"}
          /\ Strip(lastInput') # <<>>)
        => (pc' = "commit" /\ commitCalls' = <<Strip(lastInput')>>)]_vars

(***************************************************************************)
(* C3 amended: a non-empty message typed at the manual prompt opened from  *)
(* the review loop becomes the current message and the review prompt is    *)
(* shown again; that step calls neither commit nor exit.                   *)
(***************************************************************************)
C3_ManualFromReviewReturnsToReview ==
    [][(ManualAnswered /\ caller \in {"edit", "regenerate"}
          /\ Strip(lastInput') # <<>>)
        => (/\ msg' = Strip(lastInput')
            /\ pc' = "review"
            /\ commitCalls' = commitCalls
            /\ exitStatus' = <<>>)]_vars

\* back at the review prompt with the message typed after choosing edit
C3_Witness ==
    /\ pc = "review"
    /\ caller = "edit"
    /\ lastInput # None
    /\ msg = Strip(lastInput)
    /\ msg # shownMsg
    /\ commitCalls = <<>>

(***************************************************************************)
(* C4 as stated: an empty message typed at the manual prompt opened from   *)
(* the review loop does not end the process; the manual prompt is shown    *)
(* again.                                                                  *)
(***************************************************************************)
C4_EmptyInEditPathReprompts ==
    [][(ManualAnswered /\ caller \in {"edit", "regenerate"}
          /\ Strip(lastInput') = <<>>)
        => (pc' = "manual" /\ exitStatus' = <<>>)]_vars

(***************************************************************************)
(* C4 amended: an empty message typed at the manual prompt opened from the *)
(* review loop ends the process with status 1 after the empty-message      *)
(* notice; the prompt is not shown again and commit is not called.         *)
(***************************************************************************)
C4_EmptyInEditPathExitsOne ==
    [][(ManualAnswered /\ caller \in {"edit", "regenerate"}
          /\ Strip(lastInput') = <<>>)
        => (/\ pc' = "exited"
            /\ exitStatus' = <<EXIT_FAILURE>>
            /\ notice' = "empty_message"
            /\ commitCalls' = <<>>)]_vars

\* the process ended on an empty message typed after choosing edit
C4_Witness ==
    /\ pc = "exited"
    /\ caller = "edit"
    /\ notice = "empty_message"
    /\ lastInput # None
    /\ Strip(lastInput) = <<>>
    /\ exitStatus = <<EXIT_FAILURE>>

(***************************************************************************)
(* C5: after a failed first generation, an empty message typed at the      *)
(* manual prompt ends the process at once with status 1: no new prompt, no *)
(* commit call.                                                            *)
(***************************************************************************)
C5_EmptyInFallbackExitsOne ==
    [][(ManualAnswered /\ caller = "main" /\ Strip(lastInput') = <<>>)
        => (/\ pc' = "exited"
            /\ exitStatus' = <<EXIT_FAILURE>>
            /\ commitCalls' = <<>>)]_vars

\* the process ended on an empty message typed after the first generation
\* had failed
C5_Witness ==
    /\ pc = "exited"
    /\ caller = "main"
    /\ notice = "empty_message"
    /\ lastInput # None
    /\ Strip(lastInput) = <<>>
    /\ exitStatus = <<EXIT_FAILURE>>
    /\ commitCalls = <<>>

(***************************************************************************)
(* C6: when get_staged_diff returns None (no staged change, git failing,   *)
(* git missing) the process ends with status 1 and neither the generator   *)
(* nor commit is called; the diff of every generator call is non-empty.    *)
(***************************************************************************)
C6_NoDiffNoCalls ==
    /\ (diffOutcome # "none" /\ diff = None)
         => (/\ pc = "exited"
             /\ exitStatus = <<EXIT_FAILURE>>
             /\ genCalls = <<>>
             /\ commitCalls = <<>>)
    /\ \A i \in DOMAIN genCalls :
         genCalls[i].diff # None /\ Len(genCalls[i].diff) > 0

\* git diff printed nothing but whitespace and the process ended
C6_Witness ==
    /\ diffOutcome = "output"
    /\ diff = None
    /\ pc = "exited"
    /\ notice = "no_staged_changes"

(***************************************************************************)
(* C7: KeyboardInterrupt at the review prompt or at the manual prompt      *)
(* (opened from the loop or from main) ends the process with status 0, and *)
(* commit is not called in that run.                                       *)
(***************************************************************************)
C7_InterruptAtPromptCancels ==
    interruptedAt \in {"review", "manual"}
        => (/\ pc = "exited"
            /\ exitStatus = <<EXIT_SUCCESS>>
            /\ commitCalls = <<>>)

\* interrupted at the manual prompt that a failed regeneration opened
C7_Witness ==
    /\ interruptedAt = "manual"
    /\ caller = "regenerate"
    /\ notice = "operation_cancelled"
    /\ exitStatus = <<EXIT_SUCCESS>>

(***************************************************************************)
(* C8: a generation request that fails (HTTP or transport error, any other *)
(* exception) gives None and does not end the process; the manual prompt   *)
(* opens, and after the first generation it is main that opens it, with no *)
(* review prompt in between.                                               *)
(***************************************************************************)
C8_GeneratorFailureFallsToManual ==
    [][(GenReturned /\ genOutcome' \in GenFailures)
        => (/\ msg' = None
            /\ exitStatus' = <<>>
            /\ pc' = "manual"
            /\ (pc = "generate" => caller' = "main"))]_vars

\* at the manual prompt of main after the first request raised HTTPError
C8_Witness ==
    /\ pc = "manual"
    /\ caller = "main"
    /\ genOutcome = "HTTPError"
    /\ msg = None
    /\ lastInput = None

(***************************************************************************)
(* C9: on accept, commit is called with the message established last in    *)
(* the run: the first suggestion, the latest regeneration that succeeded   *)
(* or the latest manual entry.                                             *)
(***************************************************************************)
C9_AcceptCommitsCurrent ==
    [][(ReviewAnswered /\ pc' = "commit")
        => commitCalls' = <<established>>]_vars

\* accepted a message typed after edit, which replaced the first suggestion
C9_Witness ==
    /\ pc = "commit"
    /\ caller = "edit"
    /\ commitCalls = <<established>>
    /\ established # initial_msg
    /\ initial_msg # None

(***************************************************************************)
(* C10: at the review prompt, empty input does what "y" and "yes" do: the  *)
(* next step is the commit call with the current message.                  *)
(***************************************************************************)
C10_EmptyInputAccepts ==
    [][(ReviewAnswered
          /\ Lower(Strip(lastInput')) \in {<<>>, <<"y">>, <<"y", "e", "s">>})
        => (pc' = "commit" /\ commitCalls' = <<msg>>)]_vars

\* the commit call made on an empty answer at the review prompt
C10_Witness ==
    /\ pc = "commit"
    /\ lastInput # None
    /\ Strip(lastInput) = <<>>
    /\ commitCalls = <<msg>>

(***************************************************************************)
(* C11: "n" or "no" at the review prompt ends the process with status 0    *)
(* after the cancellation notice, and commit is not called, whatever edits,*)
(* regenerations and invalid answers came before.                          *)
(***************************************************************************)
C11_RejectCancels ==
    [][(ReviewAnswered
          /\ Lower(Strip(lastInput')) \in {<<"n">>, <<"n", "o">>})
        => (/\ pc' = "exited"
            /\ exitStatus' = <<EXIT_SUCCESS>>
            /\ notice' = "cancelled_by_user"
            /\ commitCalls' = <<>>)]_vars

\* rejected with "No" after an edit and a regeneration
C11_Witness ==
    /\ pc = "exited"
    /\ notice = "cancelled_by_user"
    /\ lastInput = <<"N", "o">>
    /\ caller = "edit"
    /\ Len(genCalls) = 2
    /\ exitStatus = <<EXIT_SUCCESS>>
    /\ commitCalls = <<>>

(***************************************************************************)
(* C12: an answer at the review prompt that is no accept, reject, edit or  *)
(* regenerate choice changes nothing: message, diff, model and credential  *)
(* stay, no generator or commit call is made, the review prompt is shown   *)
(* again after the invalid-choice notice.                                  *)
(***************************************************************************)
C12_InvalidChoiceKeepsState ==
    [][(ReviewAnswered
          /\ Lower(Strip(lastInput')) \notin
               { <<>>, <<"y">>, <<"y", "e", "s">>, <<"n">>, <<"n", "o">>,
                 <<"e">>, <<"e", "d", "i", "t">>, <<"r">>,
                 <<"r", "e", "g", "e", "n">>,
                 <<"r", "e", "g", "e", "n", "e", "r", "a", "t", "e">> })
        => (/\ pc' = "review"
            /\ notice' = "invalid_choice"
            /\ exitStatus' = <<>>
            /\ UNCHANGED <<msg, diff, model, hf_token, genCalls,
                           commitCalls, shownMsg, caller>>)]_vars

\* at the review prompt again after the near miss "ye"
C12_Witness ==
    /\ pc = "review"
    /\ notice = "invalid_choice"
    /\ lastInput = <<"y", "e">>
    /\ commitCalls = <<>>

(***************************************************************************)
(* C13: a regenerate choice calls the generator with the diff, model and   *)
(* credential of the first call. A non-empty result is shown, replaces the *)
(* current message and the review prompt follows; None or an empty result  *)
(* opens the manual prompt.                                                *)
(***************************************************************************)
C13_RegenerateSameArgs ==
    [][/\ (ReviewAnswered
             /\ Lower(Strip(lastInput')) \in
                  { <<"r">>, <<"r", "e", "g", "e", "n">>,
                    <<"r", "e", "g", "e", "n", "e", "r", "a", "t", "e">> })
           => (/\ pc' = "regenerate"
               /\ Len(genCalls') = 2
               /\ genCalls'[2] = genCalls[1]
               /\ commitCalls' = commitCalls)
       /\ (GenReturned /\ pc = "regenerate")
           => \/ /\ genOutcome' = "content"
                 /\ msg' # None /\ Len(msg') > 0
                 /\ msg' = established'
                 /\ shownMsg' = msg'
                 /\ pc' = "review"
              \/ /\ msg' = None \/ msg' = <<>>
                 /\ established' = established
                 /\ pc' = "manual"
                 /\ caller' = "regenerate"]_vars

\* at the review prompt with a regenerated message that is not the first one
C13_Witness ==
    /\ pc = "review"
    /\ lastInput = <<"r", "e", "g", "e", "n">>
    /\ Len(genCalls) = 2
    /\ genCalls[2] = genCalls[1]
    /\ genCalls[2].model = "other/model"
    /\ msg = shownMsg
    /\ msg # initial_msg

(***************************************************************************)
(* C14 as stated: get_staged_diff returns the first MAX_DIFF_CHARS         *)
(* characters of the git output and the marker when the output is longer,  *)
(* and the output itself otherwise.                                        *)
(***************************************************************************)
C14_TruncatesOutput ==
    (diffOutcome = "output" /\ gitOutput # None)
        => diff = IF Len(gitOutput) > MAX_DIFF_CHARS
                  THEN SubSeq(gitOutput, 1, MAX_DIFF_CHARS)
                         \o TruncationMarker
                  ELSE gitOutput

(***************************************************************************)
(* C14 amended: get_staged_diff works on the git output without its        *)
(* leading and trailing whitespace. It returns the first MAX_DIFF_CHARS    *)
(* characters of that text and the marker when the text is longer, the     *)
(* text itself when it has 1 to MAX_DIFF_CHARS characters, and None when   *)
(* the text is empty.                                                      *)
(***************************************************************************)
C14_TruncatesStrippedOutput ==
    (diffOutcome = "output" /\ gitOutput # None)
        => LET s == Strip(gitOutput)
           IN  /\ Len(s) = 0 => diff = None
               /\ (Len(s) >= 1 /\ Len(s) <= MAX_DIFF_CHARS) => diff = s
               /\ Len(s) > MAX_DIFF_CHARS
                    => /\ Len(diff) = MAX_DIFF_CHARS + Len(TruncationMarker)
                       /\ \A i \in 1..MAX_DIFF_CHARS : diff[i] = s[i]
                       /\ \A i \in 1..Len(TruncationMarker) :
                            diff[MAX_DIFF_CHARS + i] = TruncationMarker[i]

\* an output one character over the threshold inside its whitespace
C14_Witness ==
    /\ diffOutcome = "output"
    /\ gitOutput # None
    /\ Len(Strip(gitOutput)) = MAX_DIFF_CHARS + 1
    /\ Len(gitOutput) > Len(Strip(gitOutput))
    /\ Len(diff) = MAX_DIFF_CHARS + Len(TruncationMarker)

(***************************************************************************)
(* C15: commit is called at most once in a run and nothing follows it but  *)
(* the end of the process: no prompt is answered, no generator call made.  *)
(***************************************************************************)
C15_CommitOnceAndLast ==
    [][/\ Len(commitCalls') <= 1
       /\ commitCalls # <<>>
            => (/\ pc' = "exited"
                /\ UNCHANGED <<commitCalls, genCalls, lastInput, genOutcome,
                               shownMsg>>)]_vars

\* the process ended after a commit that failed, made after a regeneration
C15_Witness ==
    /\ pc = "exited"
    /\ Len(commitCalls) = 1
    /\ commitOutcome = "CalledProcessError"
    /\ Len(genCalls) = 2

(***************************************************************************)
(* C16: whenever the review prompt is shown, the message the loop holds is *)
(* a non-empty text.                                                       *)
(***************************************************************************)
C16_ReviewHasMessage ==
    pc = "review" => (msg # None /\ Len(msg) > 0)

\* at the review prompt after a regeneration gave nothing, a manual entry
\* and an invalid answer
C16_Witness ==
    /\ pc = "review"
    /\ caller = "regenerate"
    /\ genOutcome \in GenFailures
    /\ notice = "invalid_choice"
    /\ msg = established

(***************************************************************************)
(* C17: when every blocking call returns, a run in which the review prompt *)
(* is not shown again and again for ever (the user does not go on with     *)
(* edit, regenerate and invalid answers without end) reaches the end of    *)
(* the process: committed, failed or cancelled.                            *)
(***************************************************************************)
C17_Terminates ==
    ([]<>(pc = "review")) \/ <>(pc = "exited")

\* the three ends of a run: committed, failed, cancelled
C17_Witness ==
    /\ pc = "exited"
    /\ commitOutcome = "ok"
    /\ notice = "committed"
    /\ caller = "edit"
    /\ Len(genCalls) = 2

====
